---- MODULE Spec2Model ----
(***************************************************************************)
(* Model of sellsyapi/client.py: the SellsyAPI client, its token cache     *)
(* (access_token, token_expiry), the credential exchange, and the          *)
(* get/post entry points with their request loop.                          *)
(*                                                                         *)
(* One client object is shared by the callers of Callers (threads).  An    *)
(* action runs a caller from one blocking point (a network call in flight, *)
(* the backoff statement) to the next; local computation takes no time,    *)
(* the clock advances only between actions (Tick).  The one exception to   *)
(* atomic local computation is the tuple assignment of line 39: it stores  *)
(* self.access_token and self.token_expiry one after the other with no     *)
(* lock, and another caller may run between the two stores.                *)
(*                                                                         *)
(* Line 100 of client.py (`while retries < MAX_RETRIES`, no colon, no      *)
(* body) does not parse.  The request loop modelled here is the `for` of   *)
(* lines 101-110.  Reading line 100 as a loop header around the `for`      *)
(* gives the same behaviour, because the first pass through the `except`   *)
(* block always leaves the function at line 108.                           *)
(***************************************************************************)
EXTENDS Integers, Sequences, FiniteSets, TLC

\* ---------------------------------------------------------------- bounds
MaxTime == 1
MaxLifetime == 1
MaxCalls == 2

\* ------------------------------------------------------- program constants
MAX_RETRIES == 5

Callers == {1, 2}
Methods == {"get", "post"}
Lifetimes == 0..MaxLifetime

\* Responses of the authorization endpoint.
AuthKinds == {"ok", "neterr", "timeout", "badstatus", "badjson",
              "no_expires_in", "no_access_token"}
\* Responses of the API.  "ok" is a 2xx with a JSON object, "ok_list" a 2xx
\* with a JSON value that is not an object.
HttpKinds == {"ok", "ok_list", "neterr", "timeout", "badstatus", "badjson"}

NoToken == 0

\* The endpoints of the content-type table (lines 19-29) and one that the
\* table does not list.
Endpoints == {"batch", "opportunities/search", "individuals/search",
              "invoices/search", "credit-notes/search", "estimates/search",
              "comments/search", "companies/search", "contacts/search",
              "products"}

\* Dictionaries passed as params: functions from keys to values.
EmptyDict == <<>>
ParamDicts == {EmptyDict,
               "limit" :> 25,
               "offset" :> 10,
               ("limit" :> 25) @@ ("offset" :> 10)}

\* Objects passed as data, by their Python literal.  get passes none.
DataValues == {"None", "{}", "''", "{'a': 1}", "raw batch text"}

\* The error kinds of the specification, as the code raises them.
AuthenticationError == "RuntimeError"
RequestExhaustedError == "Exception"

\* issued_expiry is the expiry that belongs to the stored access_token: the
\* time its exchange answered plus the lifetime that exchange reported.
\* defaults holds the shared default objects of lines 113 and 135: the one
\* dict that get's `params={}` denotes and the one that post's denotes.
VARIABLES now, client, ctorError, access_token, token_expiry, issued,
          issued_expiry, calls, call, defaults

vars == <<now, client, ctorError, access_token, token_expiry, issued,
          issued_expiry, calls, call, defaults>>

\* ------------------------------------------------------------ pure parts

\* `time` is bound by `from time import time, sleep` to the function
\* time.time, which has no attribute `sleep`.
TimeHasSleep == FALSE

\* `max_retries` (line 109) and `e` (line 110) are bound nowhere.
MaxRetriesBound == FALSE

Pow2(n) == IF n = 0 THEN 1
           ELSE IF n = 1 THEN 2
           ELSE IF n = 2 THEN 4
           ELSE IF n = 3 THEN 8
           ELSE IF n = 4 THEN 16 ELSE 32

\* line 38: the token is expired when time() >= self.token_expiry
TokenExpiredStrict(t, expiry) == t > expiry
TokenExpiredAlways(t, expiry) == TRUE
TokenExpired(t, expiry) == t >= expiry

\* line 60: expiry_time = time() + res["expires_in"]
ExpiryNoClock(t, expires_in) == expires_in
ExpiryTime(t, expires_in) == t + expires_in

\* _request_new_token, lines 52-63: the error a response of the given kind
\* ends in ("none": the pair is returned).  jsonIsReqExc: whether the
\* installed requests raises a RequestException subclass from
\* response.json() (2.27 and later) or a plain ValueError (earlier).
request_new_token(kind, jsonIsReqExc) ==
    CASE kind \in {"neterr", "timeout"}  -> "RuntimeError"
      [] kind = "badstatus"               -> "RuntimeError"
      [] kind = "badjson"                 -> IF jsonIsReqExc THEN "RuntimeError"
                                             ELSE "ValueError"
      [] kind = "no_expires_in"           -> "KeyError"
      [] kind = "no_access_token"         -> "KeyError"
      [] OTHER                            -> "none"

\* Whether the try block of lines 102-105 reaches the except clause of
\* line 106 for a response of the given kind.
CaughtByExcept(kind, jsonIsReqExc) ==
    \/ kind \in {"neterr", "timeout", "badstatus"}
    \/ kind = "badjson" /\ jsonIsReqExc

\* lines 19-29: self.post_content_type
post_content_type ==
    [e \in Endpoints \ {"products"} |->
        IF e = "batch" THEN "text/plain" ELSE "application/json"]

\* line 94: self.post_content_type.get(endpoint, "application/json")
ContentTypeDefaultsToText(endpoint) ==
    IF endpoint \in DOMAIN post_content_type
    THEN post_content_type[endpoint] ELSE "text/plain"
ContentTypeOf(endpoint) ==
    IF endpoint \in DOMAIN post_content_type
    THEN post_content_type[endpoint] ELSE "application/json"

\* truth value of a dict
Falsy(d) == DOMAIN d = {}

\* dict.setdefault(k, v), as the value of the dict afterwards
SetDefaultOverwrites(d, k, v) ==
    [x \in DOMAIN d \cup {k} |-> IF x = k THEN v ELSE d[x]]
SetDefault(d, k, v) ==
    [x \in DOMAIN d \cup {k} |-> IF x \in DOMAIN d THEN d[x] ELSE v]

\* lines 89-90: the dict that _request sends as query parameters, given the
\* value of the object passed as params: `params or {}` is a new dict when
\* the object is empty and the object itself otherwise.
RequestParams(v) ==
    SetDefault(IF Falsy(v) THEN EmptyDict ELSE v, "limit", 100)

\* lines 89-90: the value of the object passed as params after _request ran:
\* setdefault writes into it unless `params or {}` made a new dict.
ParamsObjectAfter(v) ==
    IF Falsy(v) THEN v ELSE SetDefault(v, "limit", 100)

\* line 91: data or {}
DataOr(d) == IF d \in {"None", "{}", "''"} THEN "{}" ELSE d

\* json.dumps: the JSON text of an object, not the object.
Dumps(d) == [serialized |-> TRUE, of |-> d]

\* lines 91-97: the body handed to request()
RequestBody(endpoint, d) ==
    IF ContentTypeOf(endpoint) = "application/json"
    THEN Dumps(DataOr(d))
    ELSE [serialized |-> FALSE, of |-> DataOr(d)]

NoReq == [params |-> EmptyDict, contentType |-> "none",
          body |-> [serialized |-> FALSE, of |-> "None"]]

\* ------------------------------------------------------------ call state

NoReturn == [tok |-> NoToken, life |-> 0, margin |-> 0]

IdleCall == [pc |-> "idle", method |-> "get", reqNo |-> 0, retries |-> 0,
             attempts |-> 0, sent |-> 0, authSent |-> 0,
             bearer |-> NoToken, bearerValid |-> TRUE,
             outcome |-> "none",
             startExpired |-> FALSE, startToken |-> NoToken,
             returned |-> NoReturn, slept |-> <<>>,
             cancelledInBackoff |-> FALSE,
             pending |-> 0, pendingLife |-> 0,
             authFailed |-> FALSE,
             endpoint |-> "products", data |-> "None",
             ownParams |-> FALSE, params |-> EmptyDict,
             callerParams |-> EmptyDict, req |-> NoReq]

\* lines 88-103: one pass of _request up to the request() call of line 103,
\* with the Authorization header built at line 92 from self.access_token.
PassedParams(rec) ==
    IF rec.ownParams THEN rec.callerParams ELSE defaults[rec.method]

SendRequest(rec, tok, expiry, t) ==
    [rec EXCEPT !.pc = "http",
                !.bearer = tok,
                !.bearerValid = (t < expiry),
                !.req = [params |-> RequestParams(PassedParams(rec)),
                         contentType |-> ContentTypeOf(rec.endpoint),
                         body |-> RequestBody(rec.endpoint, rec.data)],
                !.callerParams = IF rec.ownParams
                                 THEN ParamsObjectAfter(@) ELSE @,
                !.attempts = @ + 1,
                !.sent = @ + 1]

\* lines 89-90 again, for a call that was given no params: the shared
\* default object of its method after _request ran.
DefaultsAfter(rec) ==
    IF rec.ownParams THEN defaults
    ELSE [defaults EXCEPT ![rec.method] = ParamsObjectAfter(@)]

\* line 40: _get_access_token returns self.access_token; margin is the time
\* left to the returned token at that moment, token_expiry - now, and life
\* the lifetime reported to the call's own exchange (0 when it ran none).
ReturnToken(rec, tok, expiry, life, t) ==
    [rec EXCEPT !.returned = [tok |-> tok, life |-> life,
                              margin |-> expiry - t]]

\* get/post returns or raises: the frame of the call is gone, what stays is
\* its outcome and the counts of what it did.
Finish(rec, result) ==
    [IdleCall EXCEPT !.pc = "done",
                     !.outcome = result,
                     !.method = rec.method,
                     !.retries = rec.retries,
                     !.attempts = rec.attempts,
                     !.sent = rec.sent,
                     !.authSent = rec.authSent,
                     !.startExpired = rec.startExpired,
                     !.slept = rec.slept,
                     !.ownParams = rec.ownParams,
                     !.params = rec.params,
                     !.callerParams = rec.callerParams,
                     !.cancelledInBackoff = rec.cancelledInBackoff]

TypeOK ==
    /\ now \in 0..MaxTime
    /\ client \in {"none", "constructing", "ready", "failed"}
    /\ access_token \in 0..(MaxCalls + 1)
    /\ calls \in 0..MaxCalls
    /\ \A c \in Callers :
          call[c].pc \in {"idle", "auth", "store", "http", "backoff",
                           "done"}

Init ==
    /\ now = 0
    /\ client = "none"
    /\ ctorError = "none"
    /\ access_token = NoToken
    /\ token_expiry = 0
    /\ issued = 0
    /\ issued_expiry = 0
    /\ calls = 0
    /\ call = [c \in Callers |-> IdleCall]
    /\ defaults = [m \in Methods |-> EmptyDict]

\* ------------------------------------------------------------- actions

\* time passes
Tick ==
    /\ now < MaxTime
    /\ \A c \in Callers : call[c].pc # "store"
    /\ now' = now + 1
    /\ UNCHANGED <<client, ctorError, access_token, token_expiry, issued,
                   issued_expiry, calls, call, defaults>>

\* __init__, lines 17-32, up to the post() of line 53
Construct ==
    /\ client = "none"
    /\ client' = "constructing"
    /\ UNCHANGED <<now, ctorError, access_token, token_expiry, issued,
                   issued_expiry, calls, call, defaults>>

\* __init__, line 32: the rest of _request_new_token and the assignment
ConstructResponse(kind, expires_in, jsonIsReqExc) ==
    /\ client = "constructing"
    /\ LET err == request_new_token(kind, jsonIsReqExc) IN
         IF err = "none"
         THEN /\ access_token' = issued + 1
              /\ token_expiry' = ExpiryTime(now, expires_in)
              /\ issued' = issued + 1
              /\ issued_expiry' = now + expires_in
              /\ client' = "ready"
              /\ UNCHANGED ctorError
         ELSE /\ client' = "failed"
              /\ ctorError' = err
              /\ UNCHANGED <<access_token, token_expiry, issued,
                             issued_expiry>>
    /\ UNCHANGED <<now, calls, call, defaults>>

\* get / post, lines 112-152, entered through the wrapper of lines 67-69:
\* _get_access_token (34-40), then _request up to its first request().
\* Every call runs at most one exchange, so MaxCalls bounds the exchanges.
Call(c, m, endpoint, own, p, d) ==
    /\ client = "ready"
    /\ call[c].pc \in {"idle", "done"}
    /\ calls < MaxCalls
    /\ calls' = calls + 1
    /\ LET fresh == [IdleCall EXCEPT !.method = m,
                                     !.startExpired = (now >= token_expiry),
                                     !.startToken = access_token,
                                     !.endpoint = endpoint,
                                     !.data = d,
                                     !.ownParams = own,
                                     !.params = p,
                                     !.callerParams = p]
       IN IF TokenExpired(now, token_expiry)
          THEN /\ call' = [call EXCEPT ![c] =
                    [fresh EXCEPT !.pc = "auth", !.authSent = 1]]
               /\ UNCHANGED defaults
          ELSE /\ call' = [call EXCEPT ![c] =
                    SendRequest(
                      ReturnToken([fresh EXCEPT !.reqNo = 1], access_token,
                                  token_expiry, 0, now),
                      access_token, token_expiry, now)]
               /\ defaults' = DefaultsAfter(fresh)
    /\ UNCHANGED <<now, client, ctorError, access_token, token_expiry,
                   issued, issued_expiry>>

\* line 39, the exchange succeeded: the first store of the tuple assignment,
\* self.access_token; the expiry computed at line 60 is still to be stored.
AuthSucceeded(c, expires_in) ==
    /\ access_token' = issued + 1
    /\ issued' = issued + 1
    /\ issued_expiry' = now + expires_in
    /\ call' = [call EXCEPT ![c].pc = "store",
                            ![c].pending = ExpiryTime(now, expires_in),
                            ![c].pendingLife = expires_in]
    /\ UNCHANGED token_expiry

\* line 39, _request_new_token raised: nothing is assigned and the error
\* leaves get/post through the wrapper.
AuthFailedClearsToken(c, err) ==
    /\ call' = [call EXCEPT ![c] = [Finish(@, err) EXCEPT !.authFailed = TRUE]]
    /\ access_token' = NoToken
    /\ UNCHANGED <<token_expiry, issued, issued_expiry>>
AuthFailed(c, err) ==
    /\ call' = [call EXCEPT ![c] = [Finish(@, err) EXCEPT !.authFailed = TRUE]]
    /\ UNCHANGED <<access_token, token_expiry, issued, issued_expiry>>

\* the answer to the exchange started by _get_access_token, line 39
AuthResponse(c, kind, expires_in, jsonIsReqExc) ==
    /\ call[c].pc = "auth"
    /\ LET err == request_new_token(kind, jsonIsReqExc) IN
         IF err = "none" THEN AuthSucceeded(c, expires_in)
                         ELSE AuthFailed(c, err)
    /\ UNCHANGED <<now, client, ctorError, calls, defaults>>

\* line 39, the second store of the tuple assignment, self.token_expiry;
\* then line 40 and _request up to its first request().
StoreExpiry(c) ==
    /\ call[c].pc = "store"
    /\ token_expiry' = call[c].pending
    /\ call' = [call EXCEPT ![c] =
         SendRequest(
           ReturnToken([@ EXCEPT !.reqNo = 1, !.pending = 0,
                                 !.pendingLife = 0],
                       access_token, call[c].pending, call[c].pendingLife,
                       now),
           access_token, call[c].pending, now)]
    /\ defaults' = DefaultsAfter(call[c])
    /\ UNCHANGED <<now, client, ctorError, access_token, issued,
                   issued_expiry, calls>>

\* the answer to the request() of line 103
HttpResponse(c, kind, jsonIsReqExc) ==
    /\ call[c].pc = "http"
    /\ call' = [call EXCEPT ![c] =
         IF kind \in {"ok", "ok_list"}
         THEN IF call[c].method = "get" /\ call[c].reqNo = 1
              THEN \* get, lines 124-128
                   IF kind = "ok_list"
                   THEN Finish(@, "AttributeError")
                   ELSE SendRequest([@ EXCEPT !.reqNo = 2, !.retries = 0,
                                              !.attempts = 0],
                                    access_token, token_expiry, now)
              ELSE Finish(@, "ok")
         ELSE IF CaughtByExcept(kind, jsonIsReqExc)
              THEN \* line 107
                   [@ EXCEPT !.pc = "backoff", !.retries = @ + 1]
              ELSE Finish(@, "ValueError")]
    /\ defaults' = IF kind = "ok" /\ call[c].method = "get"
                                  /\ call[c].reqNo = 1
                   THEN DefaultsAfter(call[c]) ELSE defaults
    /\ UNCHANGED <<now, client, ctorError, access_token, token_expiry,
                   issued, issued_expiry, calls>>

\* lines 108-110: what the except block raises.  Line 108 fails on
\* time.sleep; were it to pass, line 109 fails on max_retries.
BackoffFallsThrough == "none"
BackoffRaises ==
    IF ~TimeHasSleep THEN "AttributeError"
    ELSE IF ~MaxRetriesBound THEN "NameError" ELSE "Exception"

\* lines 108-110
Backoff(c) ==
    /\ call[c].pc = "backoff"
    /\ call' = [call EXCEPT ![c] =
         Finish([@ EXCEPT !.slept = IF TimeHasSleep
                                      THEN Append(@, Pow2(call[c].retries))
                                      ELSE @],
                BackoffRaises)]
    /\ UNCHANGED <<now, client, ctorError, access_token, token_expiry,
                   issued, issued_expiry, calls, defaults>>

\* The caller of a call that stands at its backoff statement (line 108)
\* signals that it abandons the call.  No statement of client.py reads the
\* signal.
Cancel(c) ==
    /\ call[c].pc = "backoff"
    /\ ~call[c].cancelledInBackoff
    /\ call' = [call EXCEPT ![c].cancelledInBackoff = TRUE]
    /\ UNCHANGED <<now, client, ctorError, access_token, token_expiry,
                   issued, issued_expiry, calls, defaults>>

\* The answers the two servers can give.  The lifetime matters only in a
\* successful exchange, the version of requests only for a body that is not
\* JSON.
AuthAnswers ==
    {<<k, ei, j>> \in AuthKinds \X Lifetimes \X BOOLEAN :
        /\ k # "ok" => ei = 0
        /\ k # "badjson" => j}
HttpAnswers ==
    {<<k, j>> \in HttpKinds \X BOOLEAN : k # "badjson" => j}

\* get has no data parameter, post's defaults to {} (lines 113, 135).
DefaultData(m) == IF m = "get" THEN "None" ELSE "{}"

\* A call that passes neither params nor data.
CallDefault(c, m, endpoint) ==
    Call(c, m, endpoint, FALSE, defaults[m], DefaultData(m))

\* A call with arguments of the caller's own.
CallWith(c, m, endpoint, p, d) ==
    /\ m = "get" => d = "None"
    /\ Call(c, m, endpoint, TRUE, p, d)

\* Callers in parallel, each calling with the defaults on one endpoint.
Next ==
    \/ Tick
    \/ Construct
    \/ \E a \in AuthAnswers : ConstructResponse(a[1], a[2], a[3])
    \/ \E c \in Callers, m \in Methods : CallDefault(c, m, "products")
    \/ \E c \in Callers, a \in AuthAnswers : AuthResponse(c, a[1], a[2], a[3])
    \/ \E c \in Callers : StoreExpiry(c)
    \/ \E c \in Callers, a \in HttpAnswers : HttpResponse(c, a[1], a[2])
    \/ \E c \in Callers : Backoff(c)
    \/ \E c \in Callers : Cancel(c)

Spec == Init /\ [][Next]_vars

\* Every request in flight is answered in the end, by a response or by an
\* error of the transport, and a caller that can run does run.
Fairness ==
    \A c \in Callers :
        /\ WF_vars(\E a \in AuthAnswers : AuthResponse(c, a[1], a[2], a[3]))
        /\ WF_vars(StoreExpiry(c))
        /\ WF_vars(\E a \in HttpAnswers : HttpResponse(c, a[1], a[2]))
        /\ WF_vars(Backoff(c))

\* One caller, calling with every input.
FirstCaller == CHOOSE c \in Callers : \A d \in Callers : c <= d

NextSeq ==
    \/ Tick
    \/ Construct
    \/ \E a \in AuthAnswers : ConstructResponse(a[1], a[2], a[3])
    \/ \E m \in Methods, e \in Endpoints : CallDefault(FirstCaller, m, e)
    \/ \E m \in Methods, e \in Endpoints, p \in ParamDicts, d \in DataValues :
          CallWith(FirstCaller, m, e, p, d)
    \/ \E a \in AuthAnswers : AuthResponse(FirstCaller, a[1], a[2], a[3])
    \/ StoreExpiry(FirstCaller)
    \/ \E a \in HttpAnswers : HttpResponse(FirstCaller, a[1], a[2])
    \/ Backoff(FirstCaller)
    \/ Cancel(FirstCaller)

SpecSeq == Init /\ [][NextSeq]_vars

\* One caller, calling with the defaults, every request answered in the end.
NextOne ==
    \/ Tick
    \/ Construct
    \/ \E a \in AuthAnswers : ConstructResponse(a[1], a[2], a[3])
    \/ \E m \in Methods : CallDefault(FirstCaller, m, "products")
    \/ \E a \in AuthAnswers : AuthResponse(FirstCaller, a[1], a[2], a[3])
    \/ StoreExpiry(FirstCaller)
    \/ \E a \in HttpAnswers : HttpResponse(FirstCaller, a[1], a[2])
    \/ Backoff(FirstCaller)
    \/ Cancel(FirstCaller)

SpecOneFair == Init /\ [][NextOne]_vars /\ Fairness

\* ------------------------------------------------------------ properties

Pow2Seq(n) == [i \in 1..n |-> Pow2(i)]

C2_AttemptsCarryFreshToken ==
    \A c \in Callers :
        call[c].sent > 0 /\ call[c].returned.margin > 0
            => call[c].bearerValid

\* C3: an execute all of whose HTTP attempts failed transiently ends in
\* RequestExhaustedError after exactly MAX_RETRIES attempts.
C3_ExhaustedAfterMaxAttempts ==
    \A c \in Callers :
        /\ call[c].pc = "done"
        /\ call[c].attempts >= 1
        /\ call[c].retries = call[c].attempts
        => /\ call[c].outcome = RequestExhaustedError
           /\ call[c].attempts = MAX_RETRIES

\* C4: an execute whose upstream fails on the first N-1 attempts and then
\* succeeds returns the body after exactly N attempts, having slept
\* 2^1, ..., 2^(N-1) between them; it never gives up while attempts remain.
C4_SucceedsOnAttemptN ==
    \A c \in Callers :
        /\ call[c].pc = "done" /\ call[c].outcome = "ok"
              => /\ call[c].attempts = call[c].retries + 1
                 /\ call[c].slept = Pow2Seq(call[c].retries)
        /\ call[c].pc = "done" /\ call[c].retries >= 1
                               /\ call[c].retries < MAX_RETRIES
              => call[c].outcome = "ok"

\* C5: a construction whose credential exchange fails ends in
\* AuthenticationError and leaves no token stored.
C5_FailedConstructionAuthError ==
    client = "failed"
        => /\ ctorError = AuthenticationError
           /\ access_token = NoToken

\* C6: whatever makes a credential exchange fail, at construction or inside
\* a get/post, the exchange fails with AuthenticationError and with no other
\* error kind.
C6_ExchangeFailsWithAuthError ==
    /\ ctorError \in {"none", AuthenticationError}
    /\ \A c \in Callers :
          call[c].authFailed => call[c].outcome = AuthenticationError

\* C7: a get/post whose credential exchange fails sent one request to the
\* authorization endpoint, none to the API, and ends in AuthenticationError.
C7_FailedRefreshIsFatal ==
    \A c \in Callers :
        call[c].authFailed
        => /\ call[c].pc = "done"
           /\ call[c].authSent = 1
           /\ call[c].sent = 0
           /\ call[c].outcome = AuthenticationError

\* C8: a get/post that starts while the stored token is expired starts a
\* credential exchange, sends nothing to the API before the exchange has
\* answered, and sends its API requests with a token newer than the one
\* that was stored when it started.
C8_ExpiredTokenIsReplaced ==
    \A c \in Callers :
        call[c].startExpired
            => /\ call[c].authSent = 1
               /\ call[c].pc \in {"auth", "store"} => call[c].sent = 0
               /\ call[c].pc \in {"http", "backoff"}
                    => /\ call[c].sent > 0
                       /\ call[c].bearer > call[c].startToken

\* the construction got expires_in = 0 (the token is expired at time 0) and
\* the next call has sent an API request
C8_Witness ==
    \E c \in Callers :
        /\ now = 0
        /\ call[c].startExpired
        /\ call[c].startToken = 1
        /\ call[c].sent > 0

\* C9: the check-refresh-read sequence is mutually exclusive: at most one
\* caller at a time is exchanging credentials for the expired token.
C9_RefreshMutualExclusion ==
    Cardinality({c \in Callers : call[c].pc = "auth"}) <= 1

\* C10: a call cancelled while at its backoff step ends Cancelled, with no
\* HTTP attempt after the cancellation.
C10_CancelDuringBackoff ==
    \A c \in Callers :
        call[c].cancelledInBackoff
            => /\ call[c].pc # "http"
               /\ call[c].pc = "done" => call[c].outcome = "Cancelled"

\* C11: a failed attempt (network error, timeout, non-2xx status, body that
\* is not JSON) is not surfaced while attempts remain: a call does not end
\* on a failed attempt before MAX_RETRIES attempts, and every failure it
\* caught was followed by a backoff sleep.
C11_FailureIsRetried ==
    \A c \in Callers :
        call[c].pc = "done" /\ call[c].attempts < MAX_RETRIES
            => /\ call[c].retries = 0
               /\ call[c].outcome # "ValueError"
               /\ Len(call[c].slept) = call[c].retries

\* C12: the request for "batch" has Content-Type text/plain and carries the
\* data as given, unserialized; the request for any other endpoint, listed
\* or not, has Content-Type application/json and carries the JSON text of
\* the data.  (An empty data object is sent as the empty dict, line 91.)
C12_ContentTypeAndBody ==
    \A c \in Callers :
        call[c].pc = "http" =>
            LET r == call[c].req
                given == call[c].data
                empty == {"None", "{}", "''"}
            IN /\ given \notin empty => r.body.of = given
               /\ given \in empty => r.body.of = "{}"
               /\ call[c].endpoint = "batch"
                    => r.contentType = "text/plain" /\ ~r.body.serialized
               /\ call[c].endpoint # "batch"
                    => r.contentType = "application/json"
                       /\ r.body.serialized

\* a raw text posted to "batch"
C12_Witness ==
    \E c \in Callers :
        /\ call[c].pc = "http"
        /\ call[c].endpoint = "batch"
        /\ call[c].data = "raw batch text"

\* C13: the query parameters of every request are the params the caller
\* passed, plus limit = 100 when the caller passed no limit.
C13_DefaultLimit ==
    \A c \in Callers :
        call[c].pc = "http" =>
            LET sentParams == call[c].req.params
                given == call[c].params
            IN /\ DOMAIN sentParams = DOMAIN given \cup {"limit"}
               /\ \A k \in DOMAIN given : sentParams[k] = given[k]
               /\ "limit" \notin DOMAIN given => sentParams["limit"] = 100

\* a request of a caller that passed limit = 25
C13_Witness ==
    \E c \in Callers :
        /\ call[c].pc = "http"
        /\ call[c].ownParams
        /\ "limit" \in DOMAIN call[c].params
        /\ call[c].params["limit"] = 25

\* C14: the only error the retry loop of _request surfaces for failed
\* attempts is RequestExhaustedError.
C14_ExhaustionErrorKind ==
    \A c \in Callers :
        call[c].pc = "done" /\ call[c].retries >= 1
            => call[c].outcome \in {"ok", RequestExhaustedError}

\* C15: a get whose upstream answers the first attempt successfully sends
\* exactly one request to the API.
C15_GetSendsOneRequest ==
    \A c \in Callers :
        /\ call[c].pc = "done"
        /\ call[c].method = "get"
        /\ call[c].outcome = "ok"
        /\ call[c].retries = 0
        => call[c].sent = 1

C17_TokenChangesOnlyOnSuccess ==
    [][/\ (access_token' # access_token \/ token_expiry' # token_expiry)
            => \/ client = "constructing" /\ client' = "ready"
               \/ \E c \in Callers :
                     \/ call[c].pc = "auth" /\ call'[c].pc = "store"
                     \/ call[c].pc = "store" /\ call'[c].pc = "http"
       /\ \A c \in Callers :
            ~call[c].authFailed /\ call'[c].authFailed
                => /\ access_token' = access_token
                   /\ token_expiry' = token_expiry]_vars

\* an exchange started by a call failed while a token was stored
C17_Witness ==
    \E c \in Callers : call[c].authFailed /\ access_token # NoToken

\* C18: whenever no store of line 39 is under way on a constructed client,
\* the stored expiry is issuance time plus reported lifetime of the stored
\* access_token.
C18_ExpiryBelongsToToken ==
    client = "ready" /\ (\A c \in Callers : call[c].pc # "store")
        => token_expiry = issued_expiry

\* C19: no step of a call that started with an unexpired token sends a
\* request to the authorization endpoint or changes access_token or
\* token_expiry.
C19_LazyRefresh ==
    [][\A c \in Callers :
          /\ call'[c] # call[c]
          /\ call'[c].pc # "idle"
          /\ ~call'[c].startExpired
          => /\ call'[c].authSent = 0
             /\ access_token' = access_token
             /\ token_expiry' = token_expiry]_vars

\* a call that started with an unexpired token ended in an error after it
\* had sent its request
C19_Witness ==
    \E c \in Callers :
        /\ call[c].pc = "done"
        /\ ~call[c].startExpired
        /\ call[c].sent > 0
        /\ call[c].outcome # "ok"

\* C20: a call leaves the params object of its caller as it was passed, and
\* the shared default objects of get and post empty.
C20_ParamsNotModified ==
    /\ \A c \in Callers : call[c].callerParams = call[c].params
    /\ \A m \in Methods : defaults[m] = EmptyDict

====
